---- MODULE Spec2Model ----
(***************************************************************************)
(* Sodaq_PcInt: pin-change interrupt multiplexer.                          *)
(*                                                                         *)
(* The model follows src/src/Sodaq_PcInt.cpp: one PcIntPort record per     *)
(* PCINT group, the registration calls (attachInterrupt, detachInterrupt,  *)
(* enableInterrupt, disableInterrupt), and the interrupt service routine   *)
(* generated by IMPLEMENT_ISR.  The AVR registers the code writes (PCMSKn, *)
(* PCICR) and reads (the port input register) are state of the model; the  *)
(* pin-change flag PCIFR is the hardware's latch that makes the vector     *)
(* run.                                                                    *)
(*                                                                         *)
(* Every registration call and every run of the ISR is one step.  The      *)
(* handlers the ISR calls are opaque: they do not call back into PcInt.    *)
(***************************************************************************)
EXTENDS Integers, Sequences, FiniteSets

(***************************************************************************)
(* Sizes.                                                                  *)
(***************************************************************************)
\* Handlers of the form callback_arg the application registers, each with its
\* own context object as argument.
NumArgFuncs == 2
\* PCINT groups modelled (the chip has up to four: PCMSK0..PCMSK3).
NumGroups == 2

\* nullptr, for a handler and for an argument.
NULL == 0
\* Slots of one PcIntPort: funcs[8], args[8].
NumSlots == 8
\* (uint8_t)-1, what bitpos returns for an empty mask.
NoBit == 255

\* Arduino.h interrupt modes.
CHANGE == 1
FALLING == 2
RISING == 3

\* The handler of the form callback (no argument).
SimpleFuncs == {1}
\* The handlers of the form callback_arg.
ArgFuncs == 2..(1 + NumArgFuncs)
\* The context object the application passes with handler func.
ArgOf(func) == func
Groups == 0..(NumGroups - 1)
Slots == 0..(NumSlots - 1)
Modes == {RISING, FALLING, CHANGE}

(***************************************************************************)
(* uint8_t values.  The code applies only bitwise operators and            *)
(* comparisons to its bytes, so a byte is kept as the set of the positions *)
(* of its set bits: no operation carries across the width.                 *)
(***************************************************************************)
\* The byte with the value n (0..255).
Byte(n) == {i \in Slots : (n \div (2 ^ i)) % 2 = 1}

\* _BV(n): 1 << n.
BV(n) == {n}

BitAnd(x, y) == x \cap y
BitOr(x, y) == x \cup y
BitXor(x, y) == (x \cup y) \ (x \cap y)
\* ~x, as far as its low eight bits go.
BitNot(x) == Slots \ x

(***************************************************************************)
(* The board: the Arduino core's pin tables (ATmega1284P layout, PCINT     *)
(* number 8*group + bit; every other pin has no PCINT line).               *)
(***************************************************************************)
\* digitalPinToPCICR(pin) is a non-null pointer.
digitalPinToPCICR(pin) == pin \in 0..(NumGroups * NumSlots - 1)
\* digitalPinToPCMSK(pin) is a non-null pointer.
digitalPinToPCMSK(pin) == pin \in 0..(NumGroups * NumSlots - 1)
digitalPinToPCICRbit(pin) == pin \div NumSlots
digitalPinToPCMSKbit(pin) == pin % NumSlots
digitalPinToBitMask(pin) == BV(pin % NumSlots)

\* A pin without a PCINT line: the first pin number past the table.
UnmappedPin == NumGroups * NumSlots

\* The groups for which PCINT_INPUT_PORTn is defined.
PortsDefined == Groups
\* No PcIntPort (get_port's nullptr).
NoPort == 255

\* get_port answering port0 for every group.
get_portZero(group) == IF group \in PortsDefined THEN 0 ELSE NoPort

\* get_port: the index of the group's PcIntPort, or NoPort.
get_port(group) == IF group \in PortsDefined THEN group ELSE NoPort

RECURSIVE bitposFrom(_, _)
bitposFrom(mask, i) ==
  IF i >= NumSlots THEN NoBit
  ELSE IF BitAnd(mask, BV(i)) # {} THEN i
  ELSE bitposFrom(mask, i + 1)

\* bitpos with the loop starting at bit 1.
bitposSkipZero(mask) == bitposFrom(mask, 1)

\* bitpos: the index of the lowest set bit of mask.
bitpos(mask) == bitposFrom(mask, 0)

(***************************************************************************)
(* State.                                                                  *)
(***************************************************************************)
VARIABLES
  port,          \* port[g]: the PcIntPort of group g
  pcmsk,         \* pcmsk[g]: register PCMSKg, the per-pin enable bits
  pcicr,         \* register PCICR, the per-group enable bits
  pcifr,         \* the groups whose pin-change flag is raised
  pin_register,  \* pin_register[g]: the live input levels of group g
  run,           \* the ISR run that was this step, or NoRun
  att,           \* att[g][b]: the registration call last made for the slot
  silenced,      \* the slots <<g, b>> disabled and not enabled or attached since
  call,          \* the registration call the main program is in, line by line
  moved,         \* the slots whose input changed since their attach call began
  isr,           \* the ISR run in progress, line by line
  probe          \* the last call of bitpos made on its own: mask and result

vars == <<port, pcmsk, pcicr, pcifr, pin_register, run, att, silenced,
          call, moved, isr, probe>>

\* The slot was never attached or detached.
NoAttach == [reg |-> "never", func |-> NULL, arg |-> NULL, mode |-> 0]
\* The slot's last registration call was detachInterrupt.
Detached == [reg |-> "detached", func |-> NULL, arg |-> NULL, mode |-> 0]
\* The slot's last registration call was this attachInterrupt.
Attached(func, arg, mode) ==
  [reg |-> "attached", func |-> func, arg |-> arg, mode |-> mode]

\* This step was no run of an ISR.
NoRun == [group |-> NoPort, old_state |-> {}, calls |-> <<>>]

\* The main program is in no registration call.
NoCall ==
  [op |-> "none", pc |-> 0, pin |-> 0, func |-> NULL, arg |-> NULL, mode |-> 0]

\* No ISR is running.
NoIsr ==
  [pc |-> 0, group |-> NoPort, old_state |-> {}, new_state |-> {},
   trigger_pins |-> {}, nr |-> 0, calls |-> <<>>]

\* bitpos was not called on its own.
NoProbe == [called |-> FALSE, mask |-> {}, pos |-> 0]

\* PcIntPort::PcIntPort().
PcIntPort ==
  [funcs |-> [b \in Slots |-> NULL],
   args |-> [b \in Slots |-> NULL],
   state |-> Byte(0),
   rising |-> Byte(0),
   falling |-> Byte(0)]

Init ==
  /\ port = [g \in Groups |-> PcIntPort]
  /\ pcmsk = [g \in Groups |-> Byte(0)]
  /\ pcicr = Byte(0)
  /\ pcifr = {}
  /\ pin_register = [g \in Groups |-> Byte(0)]
  /\ run = NoRun
  /\ att = [g \in Groups |-> [b \in Slots |-> NoAttach]]
  /\ silenced = {}
  /\ call = NoCall
  /\ moved = {}
  /\ isr = NoIsr
  /\ probe = NoProbe

\* get_port_value: the live input register of the group.
get_port_value(group) ==
  IF group \in PortsDefined THEN pin_register[group] ELSE Byte(0)

(***************************************************************************)
(* attachInterrupt.                                                        *)
(***************************************************************************)
\* RisingBit testing only that the mode is not FALLING.
RisingBitDefault(mode, portBitMask) ==
  IF mode # FALLING THEN portBitMask ELSE Byte(0)

\* The direction bit attach ORs into rising.
RisingBit(mode, portBitMask) ==
  IF mode = RISING \/ mode = CHANGE THEN portBitMask ELSE Byte(0)

\* FallingBit with CHANGE left out of the test.
FallingBitOnly(mode, portBitMask) ==
  IF mode = FALLING THEN portBitMask ELSE Byte(0)

\* FallingBit with the test on the mode left out.
FallingBitAlways(mode, portBitMask) == portBitMask

\* The direction bit attach ORs into falling.
FallingBit(mode, portBitMask) ==
  IF mode = FALLING \/ mode = CHANGE THEN portBitMask ELSE Byte(0)

\* AttachPort without the write to args.
AttachPortNoArg(p, portBitMask, func, arg, mode, live) ==
  [funcs |-> [p.funcs EXCEPT ![bitpos(portBitMask)] = func],
   args |-> p.args,
   state |-> live,
   rising |-> BitOr(p.rising, IF mode = RISING \/ mode = CHANGE
                              THEN portBitMask ELSE Byte(0)),
   falling |-> BitOr(p.falling, IF mode = FALLING \/ mode = CHANGE
                                THEN portBitMask ELSE Byte(0))]

\* AttachPort assigning the direction bits of the mode instead of ORing them
\* in.
AttachPortAssign(p, portBitMask, func, arg, mode, live) ==
  [funcs |-> [p.funcs EXCEPT ![bitpos(portBitMask)] = func],
   args |-> [p.args EXCEPT ![bitpos(portBitMask)] = arg],
   state |-> live,
   rising |-> BitOr(BitAnd(p.rising, BitNot(portBitMask)),
                    IF mode = RISING \/ mode = CHANGE
                    THEN portBitMask ELSE Byte(0)),
   falling |-> BitOr(BitAnd(p.falling, BitNot(portBitMask)),
                     IF mode = FALLING \/ mode = CHANGE
                     THEN portBitMask ELSE Byte(0))]

\* AttachPort without the write to state.
AttachPortNoSeed(p, portBitMask, func, arg, mode, live) ==
  [funcs |-> [p.funcs EXCEPT ![bitpos(portBitMask)] = func],
   args |-> [p.args EXCEPT ![bitpos(portBitMask)] = arg],
   state |-> p.state,
   rising |-> BitOr(p.rising, IF mode = RISING \/ mode = CHANGE
                              THEN portBitMask ELSE Byte(0)),
   falling |-> BitOr(p.falling, IF mode = FALLING \/ mode = CHANGE
                                THEN portBitMask ELSE Byte(0))]

\* The PcIntPort after attach's writes.
AttachPort(p, portBitMask, func, arg, mode, live) ==
  [funcs |-> [p.funcs EXCEPT ![bitpos(portBitMask)] = func],
   args |-> [p.args EXCEPT ![bitpos(portBitMask)] = arg],
   state |-> live,
   rising |-> BitOr(p.rising, RisingBit(mode, portBitMask)),
   falling |-> BitOr(p.falling, FallingBit(mode, portBitMask))]

\* attachInterrupt(pin, func, arg, mode).
attachInterrupt(pin, func, arg, mode) ==
  /\ run' = NoRun
  /\ IF digitalPinToPCICR(pin) /\ digitalPinToPCMSK(pin)
     THEN LET pcintGroup == digitalPinToPCICRbit(pin)
              portBitMask == digitalPinToBitMask(pin)
              pt == get_port(pcintGroup)
          IN IF pt # NoPort
             THEN /\ port' = [port EXCEPT ![pt] =
                       AttachPort(port[pt], portBitMask, func, arg, mode,
                                  get_port_value(pcintGroup))]
                  /\ pcmsk' = [pcmsk EXCEPT ![pcintGroup] =
                       BitOr(@, BV(digitalPinToPCMSKbit(pin)))]
                  /\ pcicr' = BitOr(pcicr, BV(digitalPinToPCICRbit(pin)))
                  /\ att' = [att EXCEPT ![pt][bitpos(portBitMask)] =
                       Attached(func, arg, mode)]
                  /\ silenced' = silenced \ {<<pt, bitpos(portBitMask)>>}
                  /\ UNCHANGED <<pcifr, pin_register>>
             ELSE UNCHANGED <<port, pcmsk, pcicr, pcifr, pin_register, att,
                              silenced>>
     ELSE UNCHANGED <<port, pcmsk, pcicr, pcifr, pin_register, att, silenced>>

\* attachInterrupt(pin, func, mode): the callback without argument.
attachInterruptSimple(pin, func, mode) ==
  attachInterrupt(pin, func, NULL, mode)

(***************************************************************************)
(* detachInterrupt.                                                        *)
(***************************************************************************)
\* DetachPort without line 173: the pin's falling bit stays.
DetachPortKeepFalling(p, portBitMask) ==
  [funcs |-> [p.funcs EXCEPT ![bitpos(portBitMask)] = NULL],
   args |-> [p.args EXCEPT ![bitpos(portBitMask)] = NULL],
   state |-> p.state,
   rising |-> BitAnd(p.rising, BitNot(portBitMask)),
   falling |-> p.falling]

\* DetachPort clearing the direction masks instead of the pin's bit in them.
DetachPortClearAll(p, portBitMask) ==
  [funcs |-> [p.funcs EXCEPT ![bitpos(portBitMask)] = NULL],
   args |-> [p.args EXCEPT ![bitpos(portBitMask)] = NULL],
   state |-> p.state,
   rising |-> Byte(0),
   falling |-> Byte(0)]

\* DetachPort that also resets the last state.
DetachPortResetState(p, portBitMask) ==
  [funcs |-> [p.funcs EXCEPT ![bitpos(portBitMask)] = NULL],
   args |-> [p.args EXCEPT ![bitpos(portBitMask)] = NULL],
   state |-> Byte(0),
   rising |-> BitAnd(p.rising, BitNot(portBitMask)),
   falling |-> BitAnd(p.falling, BitNot(portBitMask))]

\* DetachPort writing to a copy of the PcIntPort.
DetachPortCopy(p, portBitMask) == p

\* The PcIntPort after detach's writes.
DetachPort(p, portBitMask) ==
  [funcs |-> [p.funcs EXCEPT ![bitpos(portBitMask)] = NULL],
   args |-> [p.args EXCEPT ![bitpos(portBitMask)] = NULL],
   state |-> p.state,
   rising |-> BitAnd(p.rising, BitNot(portBitMask)),
   falling |-> BitAnd(p.falling, BitNot(portBitMask))]

\* detach's test "all of the group are now off".
GroupIsOff(msk) == msk = Byte(15)

\* DetachPcicr toggling the group's bit instead of clearing it.
DetachPcicrToggle(cr, msk, group) ==
  IF GroupIsOff(msk) THEN BitXor(cr, BV(group)) ELSE cr

\* PCICR after detach, given the group's PCMSK after the pin's bit was cleared.
DetachPcicr(cr, msk, group) ==
  IF GroupIsOff(msk) THEN BitAnd(cr, BitNot(BV(group))) ELSE cr

\* detachInterrupt(pin).
detachInterrupt(pin) ==
  /\ run' = NoRun
  /\ IF digitalPinToPCICR(pin) /\ digitalPinToPCMSK(pin)
     THEN LET pcintGroup == digitalPinToPCICRbit(pin)
              portBitMask == digitalPinToBitMask(pin)
              pt == get_port(pcintGroup)
              msk == BitAnd(pcmsk[pcintGroup],
                            BitNot(BV(digitalPinToPCMSKbit(pin))))
          IN IF pt # NoPort
             THEN /\ port' = [port EXCEPT ![pt] =
                       DetachPort(port[pt], portBitMask)]
                  /\ pcmsk' = [pcmsk EXCEPT ![pcintGroup] = msk]
                  /\ pcicr' = DetachPcicr(pcicr, msk, digitalPinToPCICRbit(pin))
                  /\ att' = [att EXCEPT ![pt][bitpos(portBitMask)] = Detached]
                  /\ UNCHANGED <<pcifr, pin_register, silenced>>
             ELSE UNCHANGED <<port, pcmsk, pcicr, pcifr, pin_register, att,
                              silenced>>
     ELSE UNCHANGED <<port, pcmsk, pcicr, pcifr, pin_register, att, silenced>>

\* detachInterrupt(pin) as a function of what it reads and writes: the
\* PcIntPorts, the PCMSK registers and PCICR it leaves.
DetachOutcome(pt, msk, cr, pin) ==
  IF digitalPinToPCICR(pin) /\ digitalPinToPCMSK(pin)
  THEN LET pcintGroup == digitalPinToPCICRbit(pin)
           portBitMask == digitalPinToBitMask(pin)
           g == get_port(pcintGroup)
           m == BitAnd(msk[pcintGroup], BitNot(BV(digitalPinToPCMSKbit(pin))))
       IN IF g # NoPort
          THEN <<[pt EXCEPT ![g] = DetachPort(pt[g], portBitMask)],
                 [msk EXCEPT ![pcintGroup] = m],
                 DetachPcicr(cr, m, digitalPinToPCICRbit(pin))>>
          ELSE <<pt, msk, cr>>
  ELSE <<pt, msk, cr>>

(***************************************************************************)
(* enableInterrupt, disableInterrupt.                                      *)
(***************************************************************************)
\* EnableMask assigning the bit instead of ORing it in.
EnableMaskAssign(msk, bit) == BV(bit)

\* PCMSK after enableInterrupt.
EnableMask(msk, bit) == BitOr(msk, BV(bit))

\* PCMSK after disableInterrupt.
DisableMask(msk, bit) == BitAnd(msk, BitNot(BV(bit)))

\* enableInterrupt without the test on the pointer, the pin number wrapping
\* round the table.
enableInterruptUnchecked(pin) ==
  /\ run' = NoRun
  /\ pcmsk' = [pcmsk EXCEPT ![digitalPinToPCICRbit(pin) % NumGroups] =
       EnableMask(@, digitalPinToPCMSKbit(pin))]
  /\ UNCHANGED <<port, pcicr, pcifr, pin_register, att, silenced>>

\* enableInterrupt(pin).
enableInterrupt(pin) ==
  /\ run' = NoRun
  /\ IF digitalPinToPCMSK(pin)
     THEN /\ pcmsk' = [pcmsk EXCEPT ![digitalPinToPCICRbit(pin)] =
               EnableMask(@, digitalPinToPCMSKbit(pin))]
          /\ silenced' = silenced \
               {<<digitalPinToPCICRbit(pin), digitalPinToPCMSKbit(pin)>>}
     ELSE UNCHANGED <<pcmsk, silenced>>
  /\ UNCHANGED <<port, pcicr, pcifr, pin_register, att>>

\* disableInterrupt(pin).
disableInterrupt(pin) ==
  /\ run' = NoRun
  /\ IF digitalPinToPCMSK(pin)
     THEN /\ pcmsk' = [pcmsk EXCEPT ![digitalPinToPCICRbit(pin)] =
               DisableMask(@, digitalPinToPCMSKbit(pin))]
          /\ silenced' = silenced \cup
               {<<digitalPinToPCICRbit(pin), digitalPinToPCMSKbit(pin)>>}
     ELSE UNCHANGED <<pcmsk, silenced>>
  /\ UNCHANGED <<port, pcicr, pcifr, pin_register, att>>

\* getFunc returning the slot's argument.
getFuncArgs(group, nr) ==
  IF get_port(group) # NoPort /\ nr < NumSlots
  THEN port[get_port(group)].args[nr]
  ELSE NULL

\* getFunc(group, nr): the installed function pointer.
getFunc(group, nr) ==
  IF get_port(group) # NoPort /\ nr < NumSlots
  THEN port[get_port(group)].funcs[nr]
  ELSE NULL

\* A call of getFunc(group, nr) by the application: it returns
\* getFunc(group, nr) and writes nothing.
getFuncCall(group, nr) ==
  /\ run' = NoRun
  /\ UNCHANGED <<port, pcmsk, pcicr, pcifr, pin_register, att, silenced>>

(***************************************************************************)
(* The interrupt service routine.                                          *)
(***************************************************************************)
\* TriggerPins without the comparison with the last state.
TriggerPinsLevel(p, new_state) ==
  BitOr(BitAnd(p.rising, new_state), BitAnd(p.falling, BitNot(new_state)))

\* trigger_pins.
TriggerPins(p, new_state) ==
  BitAnd(BitXor(p.state, new_state),
         BitOr(BitAnd(p.rising, new_state),
               BitAnd(p.falling, BitNot(new_state))))

\* The ISR's test without the test of the slot's handler.
FiresNoHandlerTest(p, trigger_pins, nr) ==
  BitAnd(trigger_pins, BV(nr)) # {}

\* The ISR's test for slot nr.
Fires(p, trigger_pins, nr) ==
  BitAnd(trigger_pins, BV(nr)) # {} /\ p.funcs[nr] # NULL

\* The call the ISR makes for slot nr.
Call(p, new_state, nr) ==
  [nr |-> nr, func |-> p.funcs[nr], arg |-> p.args[nr],
   value |-> BitAnd(BV(nr), new_state) # {}]

RECURSIVE DispatchBreak(_, _, _, _)
\* Dispatch with the loop ending at the first triggered slot without handler.
DispatchBreak(p, trigger_pins, new_state, nr) ==
  IF nr >= NumSlots THEN <<>>
  ELSE IF BitAnd(trigger_pins, BV(nr)) # {} /\ p.funcs[nr] = NULL THEN <<>>
  ELSE (IF BitAnd(trigger_pins, BV(nr)) # {} /\ p.funcs[nr] # NULL
        THEN <<[nr |-> nr, func |-> p.funcs[nr], arg |-> p.args[nr],
                value |-> BitAnd(BV(nr), new_state) # {}]>>
        ELSE <<>>)
       \o DispatchBreak(p, trigger_pins, new_state, nr + 1)

RECURSIVE DispatchDown(_, _, _, _)
\* Dispatch with the loop counting down from slot 7.
DispatchDown(p, trigger_pins, new_state, nr) ==
  IF nr >= NumSlots THEN <<>>
  ELSE DispatchDown(p, trigger_pins, new_state, nr + 1)
       \o (IF BitAnd(trigger_pins, BV(nr)) # {} /\ p.funcs[nr] # NULL
           THEN <<[nr |-> nr, func |-> p.funcs[nr], arg |-> p.args[nr],
                   value |-> BitAnd(BV(nr), new_state) # {}]>>
           ELSE <<>>)

RECURSIVE Dispatch(_, _, _, _)
\* The ISR's loop from slot nr on: the calls it makes, in order.
Dispatch(p, trigger_pins, new_state, nr) ==
  IF nr >= NumSlots THEN <<>>
  ELSE (IF Fires(p, trigger_pins, nr)
        THEN <<Call(p, new_state, nr)>> ELSE <<>>)
       \o Dispatch(p, trigger_pins, new_state, nr + 1)

\* The hardware runs the group's vector: its flag is raised and its PCICR
\* bit is set.
VectorPending(group) ==
  group \in pcifr /\ BitAnd(pcicr, BV(group)) # {}

\* ISR(PCINTn_vect): one run of the group's routine.
ISR(group) ==
  /\ VectorPending(group)
  /\ group \in PortsDefined
  /\ LET new_state == pin_register[group]
         trigger_pins == TriggerPins(port[group], new_state)
     IN /\ port' = [port EXCEPT ![group].state = new_state]
        /\ run' = [group |-> group, old_state |-> port[group].state,
                   calls |-> Dispatch(port[group], trigger_pins, new_state, 0)]
  /\ pcifr' = pcifr \ {group}
  /\ UNCHANGED <<pcmsk, pcicr, pin_register, att, silenced>>

(***************************************************************************)
(* The environment: an input line changes level.  The change raises the    *)
(* group's flag when the pin's PCMSK bit is set.                           *)
(***************************************************************************)
PinChange(pin) ==
  /\ digitalPinToPCMSK(pin)
  /\ LET group == digitalPinToPCICRbit(pin)
     IN /\ pin_register' = [pin_register EXCEPT ![group] =
              BitXor(@, digitalPinToBitMask(pin))]
        /\ pcifr' = IF BitAnd(pcmsk[group], BV(digitalPinToPCMSKbit(pin))) # {}
                    THEN pcifr \cup {group} ELSE pcifr
  /\ run' = NoRun
  /\ UNCHANGED <<port, pcmsk, pcicr, att, silenced>>

(***************************************************************************)
(* The program: registration calls on the pins of P, with the handlers of  *)
(* FA (each with its context object) and of FS (callbacks without          *)
(* argument) and the modes of M; input changes on the pins of T; the ISRs. *)
(***************************************************************************)
\* Every registration call and every ISR run is one step.
Atomic == UNCHANGED <<call, moved, isr, probe>>

NextOn(P, T, FA, FS, M) ==
  \/ \E pin \in P, func \in FA, mode \in M :
       attachInterrupt(pin, func, ArgOf(func), mode) /\ Atomic
  \/ \E pin \in P, func \in FS, mode \in M :
       attachInterruptSimple(pin, func, mode) /\ Atomic
  \/ \E pin \in P : detachInterrupt(pin) /\ Atomic
  \/ \E pin \in P : enableInterrupt(pin) /\ Atomic
  \/ \E pin \in P : disableInterrupt(pin) /\ Atomic
  \/ \E pin \in T : PinChange(pin) /\ Atomic
  \/ \E group \in Groups : ISR(group) /\ Atomic

\* Two pins of group 0: bits 0 and 5.
Pins == {0, 5}

Next == NextOn(Pins, Pins, ArgFuncs, SimpleFuncs, Modes)

Spec == Init /\ [][Next]_vars

\* The program that makes attachInterrupt and detachInterrupt calls only.
NextAttachDetachOn(P, T, FA, FS, M) ==
  \/ \E pin \in P, func \in FA, mode \in M :
       attachInterrupt(pin, func, ArgOf(func), mode) /\ Atomic
  \/ \E pin \in P, func \in FS, mode \in M :
       attachInterruptSimple(pin, func, mode) /\ Atomic
  \/ \E pin \in P : detachInterrupt(pin) /\ Atomic
  \/ \E pin \in T : PinChange(pin) /\ Atomic
  \/ \E group \in Groups : ISR(group) /\ Atomic

\* Five pins of group 0: bits 0 to 4.
GroupPins == 0..4

NextGroup == NextAttachDetachOn(GroupPins, {0}, {2}, SimpleFuncs, {CHANGE})

\* Attach and detach calls on five pins of one group; the input of the first
\* changes.
SpecGroup == Init /\ [][NextGroup]_vars

\* The pins the diagnostic program uses: one with a PCINT line, one without.
DiagPins == {0, UnmappedPin}
\* The groups getFunc is asked about: the supported ones and one past them.
DiagGroups == Groups \cup {NumGroups}
\* The slot numbers getFunc is asked about: those of the table and one past.
DiagSlots == Slots \cup {NumSlots}

NextDiag ==
  \/ NextOn(DiagPins, {0}, ArgFuncs, SimpleFuncs, Modes)
  \/ \E group \in DiagGroups, nr \in DiagSlots :
       getFuncCall(group, nr) /\ Atomic

\* Registration calls on a pin with a PCINT line and on one without, and
\* getFunc calls.
SpecDiag == Init /\ [][NextDiag]_vars

(***************************************************************************)
(* The registration calls line by line.  attachInterrupt and               *)
(* detachInterrupt run in the main program with interrupts enabled: the    *)
(* code has no cli()/sei() and writes no PCICR bit before its other        *)
(* writes, so the group's ISR can run between any two of their lines.      *)
(* call.pc is the source line the call executes next.                      *)
(***************************************************************************)
CallGroup == digitalPinToPCICRbit(call.pin)
CallMask == digitalPinToBitMask(call.pin)
CallBit == bitpos(CallMask)

\* One line of the call in progress: it leaves pt, msk and cr in the
\* PcIntPorts, the PCMSK registers and PCICR, and goes on to line next.
CallLine(op, pc, next, pt, msk, cr) ==
  /\ call.op = op
  /\ call.pc = pc
  /\ port' = pt
  /\ pcmsk' = msk
  /\ pcicr' = cr
  /\ call' = [call EXCEPT !.pc = next]
  /\ run' = NoRun
  /\ UNCHANGED <<pcifr, pin_register, att, silenced, moved, isr, probe>>

\* The last line of the call in progress, and its return.
CallReturn(op, pc, cr, registration, quiet) ==
  /\ call.op = op
  /\ call.pc = pc
  /\ pcicr' = cr
  /\ call' = NoCall
  /\ att' = [att EXCEPT ![CallGroup][CallBit] = registration]
  /\ silenced' = quiet
  /\ run' = NoRun
  /\ UNCHANGED <<port, pcmsk, pcifr, pin_register, moved, isr, probe>>

\* attachInterrupt(pin, func, arg, mode) is called; the pin has a PCINT line
\* and its group a PcIntPort.
attachInterruptEnter(pin, func, arg, mode) ==
  /\ call = NoCall
  /\ digitalPinToPCICR(pin)
  /\ digitalPinToPCMSK(pin)
  /\ get_port(digitalPinToPCICRbit(pin)) # NoPort
  /\ call' = [op |-> "attach", pc |-> 149, pin |-> pin, func |-> func,
              arg |-> arg, mode |-> mode]
  /\ moved' = moved \ {<<digitalPinToPCICRbit(pin),
                         bitpos(digitalPinToBitMask(pin))>>}
  /\ run' = NoRun
  /\ UNCHANGED <<port, pcmsk, pcicr, pcifr, pin_register, att, silenced,
                 isr, probe>>

\* port->funcs[bitpos(portBitMask)] = func
attachInterrupt149 ==
  CallLine("attach", 149, 150,
           [port EXCEPT ![CallGroup].funcs[CallBit] = call.func], pcmsk, pcicr)

\* port->args[bitpos(portBitMask)] = arg
attachInterrupt150 ==
  CallLine("attach", 150, 151,
           [port EXCEPT ![CallGroup].args[CallBit] = call.arg], pcmsk, pcicr)

\* port->rising |= ...
attachInterrupt151 ==
  CallLine("attach", 151, 152,
           [port EXCEPT ![CallGroup].rising =
              BitOr(@, RisingBit(call.mode, CallMask))], pcmsk, pcicr)

\* port->falling |= ...
attachInterrupt152 ==
  CallLine("attach", 152, 153,
           [port EXCEPT ![CallGroup].falling =
              BitOr(@, FallingBit(call.mode, CallMask))], pcmsk, pcicr)

\* port->state = get_port_value(pcintGroup)
attachInterrupt153 ==
  CallLine("attach", 153, 154,
           [port EXCEPT ![CallGroup].state = get_port_value(CallGroup)],
           pcmsk, pcicr)

\* *pcmsk |= _BV(digitalPinToPCMSKbit(pin))
attachInterrupt154 ==
  CallLine("attach", 154, 155, port,
           [pcmsk EXCEPT ![CallGroup] =
              BitOr(@, BV(digitalPinToPCMSKbit(call.pin)))], pcicr)

\* *pcicr |= _BV(digitalPinToPCICRbit(pin)), and the return.
attachInterrupt155 ==
  CallReturn("attach", 155, BitOr(pcicr, BV(digitalPinToPCICRbit(call.pin))),
             Attached(call.func, call.arg, call.mode),
             silenced \ {<<CallGroup, CallBit>>})

\* detachInterrupt(pin) is called; the pin has a PCINT line and its group a
\* PcIntPort.
detachInterruptEnter(pin) ==
  /\ call = NoCall
  /\ digitalPinToPCICR(pin)
  /\ digitalPinToPCMSK(pin)
  /\ get_port(digitalPinToPCICRbit(pin)) # NoPort
  /\ call' = [op |-> "detach", pc |-> 170, pin |-> pin, func |-> NULL,
              arg |-> NULL, mode |-> 0]
  /\ run' = NoRun
  /\ UNCHANGED <<port, pcmsk, pcicr, pcifr, pin_register, att, silenced,
                 moved, isr, probe>>

\* port->funcs[bitpos(portBitMask)] = nullptr
detachInterrupt170 ==
  CallLine("detach", 170, 171,
           [port EXCEPT ![CallGroup].funcs[CallBit] = NULL], pcmsk, pcicr)

\* port->args[bitpos(portBitMask)] = nullptr
detachInterrupt171 ==
  CallLine("detach", 171, 172,
           [port EXCEPT ![CallGroup].args[CallBit] = NULL], pcmsk, pcicr)

\* port->rising &= ~portBitMask
detachInterrupt172 ==
  CallLine("detach", 172, 173,
           [port EXCEPT ![CallGroup].rising = BitAnd(@, BitNot(CallMask))],
           pcmsk, pcicr)

\* port->falling &= ~portBitMask
detachInterrupt173 ==
  CallLine("detach", 173, 175,
           [port EXCEPT ![CallGroup].falling = BitAnd(@, BitNot(CallMask))],
           pcmsk, pcicr)

\* *pcmsk &= ~_BV(digitalPinToPCMSKbit(pin))
detachInterrupt175 ==
  CallLine("detach", 175, 177, port,
           [pcmsk EXCEPT ![CallGroup] =
              BitAnd(@, BitNot(BV(digitalPinToPCMSKbit(call.pin))))], pcicr)

\* if (*pcmsk == 0x00F) *pcicr &= ~_BV(digitalPinToPCICRbit(pin)), and the
\* return.
detachInterrupt177 ==
  CallReturn("detach", 177,
             DetachPcicr(pcicr, pcmsk[CallGroup],
                         digitalPinToPCICRbit(call.pin)),
             Detached, silenced)

\* An input line changes level while the program runs line by line.
PinChangeSeen(pin) ==
  /\ PinChange(pin)
  /\ moved' = moved \cup {<<digitalPinToPCICRbit(pin),
                            bitpos(digitalPinToBitMask(pin))>>}
  /\ UNCHANGED <<call, isr, probe>>

\* The argument the application supplies with handler func.
SuppliedWith(func) == IF func \in SimpleFuncs THEN NULL ELSE ArgOf(func)

\* The main program's calls line by line, the ISRs between the lines.
NextLinesOn(P, T, F, M) ==
  \/ \E pin \in P, func \in F, mode \in M :
       attachInterruptEnter(pin, func, SuppliedWith(func), mode)
  \/ attachInterrupt149
  \/ attachInterrupt150
  \/ attachInterrupt151
  \/ attachInterrupt152
  \/ attachInterrupt153
  \/ attachInterrupt154
  \/ attachInterrupt155
  \/ \E pin \in P : detachInterruptEnter(pin)
  \/ detachInterrupt170
  \/ detachInterrupt171
  \/ detachInterrupt172
  \/ detachInterrupt173
  \/ detachInterrupt175
  \/ detachInterrupt177
  \/ \E pin \in T : PinChangeSeen(pin)
  \/ \E group \in Groups : ISR(group) /\ Atomic

NextLines == NextLinesOn(Pins, Pins, SimpleFuncs \cup ArgFuncs, {CHANGE})

\* attachInterrupt and detachInterrupt on two pins of one group, line by
\* line, with the group's ISR running between the lines.
SpecLines == Init /\ [][NextLines]_vars

(***************************************************************************)
(* The ISR line by line.  An ISR runs with interrupts disabled: the main    *)
(* program and the other vectors wait until it returns, the inputs go on    *)
(* changing.  isr.pc is the source line the ISR executes next; at 223 it is *)
(* in the handler of slot isr.nr.                                           *)
(***************************************************************************)
\* One line of the ISR in progress: it leaves pt in the PcIntPorts and the
\* record next in isr.
ISRLine(pc, pt, next) ==
  /\ isr.pc = pc
  /\ port' = pt
  /\ isr' = next
  /\ run' = NoRun
  /\ UNCHANGED <<pcmsk, pcicr, pcifr, pin_register, att, silenced, call,
                 moved, probe>>

\* The hardware enters the group's vector and clears its flag.
ISREnter(group) ==
  /\ isr = NoIsr
  /\ VectorPending(group)
  /\ group \in PortsDefined
  /\ pcifr' = pcifr \ {group}
  /\ isr' = [NoIsr EXCEPT !.pc = 218, !.group = group]
  /\ run' = NoRun
  /\ UNCHANGED <<port, pcmsk, pcicr, pin_register, att, silenced, call,
                 moved, probe>>

\* uint8_t new_state = pin_register
ISR218 ==
  ISRLine(218, port,
          [isr EXCEPT !.pc = 219, !.new_state = pin_register[isr.group]])

\* uint8_t trigger_pins = ...
ISR219 ==
  ISRLine(219, port,
          [isr EXCEPT !.pc = 220,
                      !.old_state = port[isr.group].state,
                      !.trigger_pins =
                         TriggerPins(port[isr.group], isr.new_state)])

\* ISR220 reading the input register a second time, as the earlier
\* IMPLEMENT_ISR did (port.state = pin_register).
ISR220Reread ==
  ISRLine(220, [port EXCEPT ![isr.group].state = pin_register[isr.group]],
          [isr EXCEPT !.pc = 221, !.nr = 0])

\* ISR220 without the store.
ISR220NoStore ==
  ISRLine(220, port, [isr EXCEPT !.pc = 221, !.nr = 0])

\* port.state = new_state
ISR220 ==
  ISRLine(220, [port EXCEPT ![isr.group].state = isr.new_state],
          [isr EXCEPT !.pc = 221, !.nr = 0])

RECURSIVE NextFiring(_, _, _)
\* The loop's iterations that call nothing: the first slot from nr on whose
\* test on line 222 is true, or NumSlots.
NextFiring(p, trigger_pins, nr) ==
  IF nr >= NumSlots THEN NumSlots
  ELSE IF Fires(p, trigger_pins, nr) THEN nr
  ELSE NextFiring(p, trigger_pins, nr + 1)

\* The loop goes on to the next slot it calls, and calls its handler.
ISR221 ==
  /\ NextFiring(port[isr.group], isr.trigger_pins, isr.nr) < NumSlots
  /\ LET nr == NextFiring(port[isr.group], isr.trigger_pins, isr.nr)
     IN ISRLine(221, port,
                [isr EXCEPT !.pc = 223, !.nr = nr,
                            !.calls = Append(@, Call(port[isr.group],
                                                     isr.new_state, nr))])

\* The handler returns.
ISR223 ==
  ISRLine(223, port, [isr EXCEPT !.pc = 221, !.nr = @ + 1])

\* The loop ends and the ISR returns.
ISRReturn ==
  /\ isr.pc = 221
  /\ NextFiring(port[isr.group], isr.trigger_pins, isr.nr) = NumSlots
  /\ isr' = NoIsr
  /\ run' = [group |-> isr.group, old_state |-> isr.old_state,
             calls |-> isr.calls]
  /\ UNCHANGED <<port, pcmsk, pcicr, pcifr, pin_register, att, silenced,
                 call, moved, probe>>

\* The main program makes its calls between the ISR runs.
NextInIsrOn(P, T, FA, FS, M) ==
  \/ \E pin \in P, func \in FA, mode \in M :
       isr = NoIsr /\ attachInterrupt(pin, func, ArgOf(func), mode) /\ Atomic
  \/ \E pin \in P, func \in FS, mode \in M :
       isr = NoIsr /\ attachInterruptSimple(pin, func, mode) /\ Atomic
  \/ \E pin \in P : isr = NoIsr /\ detachInterrupt(pin) /\ Atomic
  \/ \E pin \in T : PinChange(pin) /\ Atomic
  \/ \E group \in Groups : ISREnter(group)
  \/ ISR218
  \/ ISR219
  \/ ISR220
  \/ ISR221
  \/ ISR223
  \/ ISRReturn

NextInIsr == NextInIsrOn(Pins, Pins, {2}, SimpleFuncs, Modes)

\* attachInterrupt and detachInterrupt on two pins of one group, the ISR line
\* by line, the inputs changing between its lines.
SpecInIsr == Init /\ [][NextInIsr]_vars

(***************************************************************************)
(* Properties.                                                             *)
(***************************************************************************)
\* This step was a run of an ISR.
\* The handler the ISR is in calls detachInterrupt.  The ISR runs with
\* interrupts disabled, so the call is one step.
HandlerDetaches(pin) ==
  /\ isr.pc = 223
  /\ detachInterrupt(pin)
  /\ Atomic

\* The handler the ISR is in calls attachInterrupt.
HandlerAttaches(pin, func, arg, mode) ==
  /\ isr.pc = 223
  /\ attachInterrupt(pin, func, arg, mode)
  /\ Atomic

NextHandlers ==
  \/ NextInIsrOn(Pins, Pins, {2}, SimpleFuncs, {CHANGE})
  \/ \E pin \in Pins : HandlerDetaches(pin)
  \/ \E pin \in Pins, func \in {2} :
       HandlerAttaches(pin, func, ArgOf(func), CHANGE)

\* The ISR line by line, its handlers calling attachInterrupt and
\* detachInterrupt for pins of the group.
SpecHandlers == Init /\ [][NextHandlers]_vars

\* Values of the mode parameter (uint8_t) that are none of CHANGE, FALLING
\* and RISING: LOW and the value after RISING.
InvalidModes == {0, RISING + 1}

NextMode == NextOn(Pins, Pins, {2}, SimpleFuncs, {CHANGE} \cup InvalidModes)

\* The whole interface on two pins of one group, attachInterrupt called with
\* CHANGE and with modes that are none of the three.
SpecMode == Init /\ [][NextMode]_vars

\* bitpos(mask) called on its own, for the mask with value n.
bitposCall(n) ==
  /\ probe' = [called |-> TRUE, mask |-> Byte(n), pos |-> bitpos(Byte(n))]
  /\ UNCHANGED <<port, pcmsk, pcicr, pcifr, pin_register, run, att, silenced,
                 call, moved, isr>>

\* Every value of a uint8_t mask.
MaskValues == 0..(2 ^ NumSlots - 1)

NextBitpos == \E n \in MaskValues : bitposCall(n)

\* bitpos applied to every 8-bit mask.
SpecBitpos == Init /\ [][NextBitpos]_vars

\* One pin in each of two groups: bit 0 of group 0 and bit 0 of group 1.
PortPins == {0, NumSlots}

NextPorts == NextOn(PortPins, PortPins, {2}, SimpleFuncs, {CHANGE})

\* The whole interface on pins of two groups, with the ISRs of both.
SpecPorts == Init /\ [][NextPorts]_vars

\* The pins of PortPins that belong to a group.
PinsOf(group) == {pin \in PortPins : digitalPinToPCICRbit(pin) = group}

Ran == run.group # NoPort
\* What the run read from the input register: it is the port's state now.
RunNew == port[run.group].state
\* The state the run compared it with.
RunOld == run.old_state
\* The slots whose handler the run called.
CalledSlots == {run.calls[i].nr : i \in DOMAIN run.calls}
\* The registration in force for slot b of the run's group.
RunAtt(b) == att[run.group][b]

\* C1: one run of the edge detector calls the handler of bit b if and only if
\* bit b differs between the last state and the new sample, the bit is armed
\* for the direction of the change (rising and now 1, or falling and now 0),
\* and slot b holds a handler; each call passes the slot's argument and the
\* new level of the bit.
C1_EdgeDetection ==
  Ran =>
    LET p == port[run.group]
    IN /\ \A b \in Slots :
            b \in CalledSlots <=>
              /\ (b \in RunOld) # (b \in RunNew)
              /\ \/ b \in p.rising /\ b \in RunNew
                 \/ b \in p.falling /\ b \notin RunNew
              /\ p.funcs[b] # NULL
       /\ \A i \in DOMAIN run.calls :
            /\ run.calls[i].func = p.funcs[run.calls[i].nr]
            /\ run.calls[i].arg = p.args[run.calls[i].nr]
            /\ run.calls[i].value = (run.calls[i].nr \in RunNew)

\* A run that saw two bits change and called one handler, with its argument.
C1_Witness ==
  /\ Ran
  /\ Cardinality(BitXor(RunOld, RunNew)) = 2
  /\ Len(run.calls) = 1
  /\ run.calls[1].arg # NULL

\* C2: for a pin attached with mode CHANGE, a run whose sample differs from
\* the last state in that bit only, in either direction, makes exactly one
\* call: the registered handler, with the registered argument and the level
\* of the bit after the transition.
C2_ChangeFiresOnce ==
  Ran =>
    \A b \in Slots :
      (/\ RunAtt(b).reg = "attached"
       /\ RunAtt(b).mode = CHANGE
       /\ BitXor(RunOld, RunNew) = {b})
      => run.calls = <<[nr |-> b, func |-> RunAtt(b).func,
                        arg |-> RunAtt(b).arg, value |-> b \in RunNew]>>

\* A run that saw only the bit of a CHANGE pin fall and called its handler,
\* registered with an argument.
C2_Witness ==
  /\ Ran
  /\ \E b \in Slots :
       /\ RunAtt(b).reg = "attached"
       /\ RunAtt(b).mode = CHANGE
       /\ RunAtt(b).arg # NULL
       /\ BitXor(RunOld, RunNew) = {b}
       /\ b \notin RunNew
       /\ Len(run.calls) = 1

\* A step that is an attachInterrupt call for the pin with the mode, in either
\* form.
AttachStep(pin, mode) ==
  \/ \E func \in ArgFuncs : attachInterrupt(pin, func, ArgOf(func), mode)
  \/ \E func \in SimpleFuncs : attachInterruptSimple(pin, func, mode)

\* The slot is attached with mode RISING and not armed for falling.
RisingOnly(g, b) ==
  /\ att[g][b].reg = "attached"
  /\ att[g][b].mode = RISING
  /\ b \notin port[g].falling

\* C3: a pin attached with mode RISING on a slot that was not armed is armed
\* for rising only, and stays so until the next registration call for the
\* pin; a run that sees its bit go from 1 to 0 does not call its handler, and
\* a run that sees its bit go from 0 to 1 calls it.
C3_RisingOnly ==
  /\ [][\A pin \in Pins :
          LET g == digitalPinToPCICRbit(pin)
              b == digitalPinToPCMSKbit(pin)
          IN (/\ b \notin port[g].rising
              /\ b \notin port[g].falling
              /\ AttachStep(pin, RISING))
             => RisingOnly(g, b)']_vars
  /\ [][\A g \in Groups, b \in Slots :
          (RisingOnly(g, b) /\ att'[g][b] = att[g][b]) => RisingOnly(g, b)']_vars
  /\ [](Ran =>
          \A b \in Slots :
            RisingOnly(run.group, b) =>
              /\ (b \in RunOld /\ b \notin RunNew) => b \notin CalledSlots
              /\ (b \notin RunOld /\ b \in RunNew) =>
                   \E i \in DOMAIN run.calls :
                     run.calls[i] = [nr |-> b, func |-> RunAtt(b).func,
                                     arg |-> RunAtt(b).arg, value |-> TRUE])

\* A run that saw the bit of a RISING pin go from 1 to 0 and did not call its
\* handler.
C3_Witness ==
  /\ Ran
  /\ \E b \in Slots :
       /\ RisingOnly(run.group, b)
       /\ b \in RunOld
       /\ b \notin RunNew
       /\ b \notin CalledSlots

\* C4: the calls of one run are in strictly ascending order of bit position.
C4_AscendingOrder ==
  Ran =>
    \A i, j \in DOMAIN run.calls :
      i < j => run.calls[i].nr < run.calls[j].nr

\* A run that called the handlers of two bits.
C4_Witness ==
  /\ Ran
  /\ Len(run.calls) = 2
  /\ run.calls[1].nr = 0
  /\ run.calls[2].nr = 5

\* C5: after detachInterrupt(pin), and until the next attachInterrupt for the
\* pin, no run calls a handler for the pin's bit, whatever transition it sees
\* on it.
C5_DetachedNeverCalled ==
  Ran =>
    \A b \in Slots :
      RunAtt(b).reg = "detached" => b \notin CalledSlots

\* A run that saw a transition on the bit of a detached pin.
C5_Witness ==
  /\ Ran
  /\ \E b \in Slots :
       /\ RunAtt(b).reg = "detached"
       /\ b \in BitXor(RunOld, RunNew)
       /\ b \notin CalledSlots

\* C6: between disableInterrupt(pin) and the next enableInterrupt or
\* attachInterrupt for the pin, no run calls the pin's handler, also when the
\* run was started by another pin of the group.
C6_DisabledIsSilent ==
  Ran =>
    \A b \in Slots :
      <<run.group, b>> \in silenced => b \notin CalledSlots

\* The run saw an armed transition of the slot's bit: one in the direction of
\* the mode the slot is attached with.
ArmedTransition(b) ==
  \/ /\ RunAtt(b).mode \in {RISING, CHANGE}
     /\ b \notin RunOld
     /\ b \in RunNew
  \/ /\ RunAtt(b).mode \in {FALLING, CHANGE}
     /\ b \in RunOld
     /\ b \notin RunNew

\* C7: enableInterrupt and disableInterrupt change the pin's PCMSK bit and
\* nothing else: the handlers, arguments, direction masks and last state of
\* every port and PCICR stay as they are, and so do the other PCMSK bits; so
\* a run that sees an armed transition of an attached pin calls its handler,
\* whatever disable and enable calls were made since the attach.
C7_EnableDisableFrame ==
  /\ [][\A pin \in Pins :
          LET g == digitalPinToPCICRbit(pin)
              b == digitalPinToPCMSKbit(pin)
          IN (enableInterrupt(pin) \/ disableInterrupt(pin)) =>
               /\ port' = port
               /\ pcicr' = pcicr
               /\ \A h \in Groups \ {g} : pcmsk'[h] = pcmsk[h]
               /\ pcmsk'[g] \ {b} = pcmsk[g] \ {b}
               /\ enableInterrupt(pin) => b \in pcmsk'[g]
               /\ disableInterrupt(pin) => b \notin pcmsk'[g]]_vars
  /\ [](Ran =>
          \A b \in Slots :
            (RunAtt(b).reg = "attached" /\ ArmedTransition(b)) =>
              \E i \in DOMAIN run.calls :
                /\ run.calls[i].nr = b
                /\ run.calls[i].func = RunAtt(b).func)

\* A disabled pin whose slot still holds the handler, the argument and the
\* direction bits it was attached with, in a group whose PCICR bit is set.
C7_Witness ==
  \E g \in Groups, b \in Slots :
    /\ <<g, b>> \in silenced
    /\ b \notin pcmsk[g]
    /\ g \in pcicr
    /\ att[g][b].reg = "attached"
    /\ att[g][b].arg # NULL
    /\ port[g].funcs[b] = att[g][b].func
    /\ port[g].args[b] = att[g][b].arg
    /\ b \in port[g].rising
    /\ b \in port[g].falling

\* C8: detachInterrupt of the only attached pin of a group clears the group's
\* PCICR bit, and attachInterrupt of a pin of the group sets it.
C8_MasterFollowsPins ==
  [][\A pin \in Pins :
       LET g == digitalPinToPCICRbit(pin)
           b == digitalPinToPCMSKbit(pin)
       IN /\ (/\ att[g][b].reg = "attached"
              /\ \A c \in Slots \ {b} : att[g][c].reg # "attached"
              /\ detachInterrupt(pin))
             => g \notin pcicr'
          /\ (\E mode \in Modes : AttachStep(pin, mode)) => g \in pcicr']_vars

\* C9: after any sequence of attachInterrupt and detachInterrupt calls, a
\* group in which a pin is attached with its PCMSK bit set has its PCICR bit
\* set.
C9_MasterWhileEnabled ==
  \A g \in Groups, b \in Slots :
    (att[g][b].reg = "attached" /\ b \in pcmsk[g]) => g \in pcicr

\* C10: a slot holds the handler and the argument of the last attachInterrupt
\* for its pin and nothing of an earlier one: a run calls, for a bit, that
\* handler with that argument, once; the form without argument stores a null
\* argument.
C10_OneHandlerPerSlot ==
  /\ \A g \in Groups, b \in Slots :
       att[g][b].reg = "attached" =>
         /\ port[g].funcs[b] = att[g][b].func
         /\ port[g].args[b] = att[g][b].arg
         /\ att[g][b].func \in SimpleFuncs => port[g].args[b] = NULL
  /\ Ran =>
       \A i \in DOMAIN run.calls :
         /\ run.calls[i].func = RunAtt(run.calls[i].nr).func
         /\ run.calls[i].arg = RunAtt(run.calls[i].nr).arg
         /\ \A j \in DOMAIN run.calls :
              run.calls[j].nr = run.calls[i].nr => j = i

\* A run that called the handler of a pin attached with an argument over an
\* earlier registration: the slot is attached with RISING and still armed for
\* falling, which only an earlier attachInterrupt can have left.
C10_Witness ==
  /\ Ran
  /\ \E b \in Slots :
       /\ RunAtt(b).reg = "attached"
       /\ RunAtt(b).mode = RISING
       /\ b \in port[run.group].falling
       /\ RunAtt(b).arg # NULL
       /\ run.calls = <<[nr |-> b, func |-> RunAtt(b).func,
                         arg |-> RunAtt(b).arg, value |-> TRUE]>>

\* C11: attachInterrupt only adds direction bits: a direction bit of a slot
\* goes from set to clear only in a detachInterrupt of its pin; so a pin
\* attached with RISING over an earlier CHANGE is still armed for falling, and
\* a run that sees its bit go from 1 to 0 calls the handler now registered.
C11_AttachOnlyAddsBits ==
  /\ [][\A g \in Groups, b \in Slots :
          (\/ b \in port[g].rising /\ b \notin port'[g].rising
           \/ b \in port[g].falling /\ b \notin port'[g].falling)
          => /\ att[g][b].reg = "attached"
             /\ att'[g][b].reg = "detached"]_vars
  /\ [](Ran =>
          \A b \in Slots :
            (/\ RunAtt(b).reg = "attached"
             /\ b \in port[run.group].falling
             /\ b \in RunOld
             /\ b \notin RunNew)
            => \E i \in DOMAIN run.calls :
                 run.calls[i] = [nr |-> b, func |-> RunAtt(b).func,
                                 arg |-> RunAtt(b).arg, value |-> FALSE])

\* A run that saw the bit of a pin attached with RISING, and still armed for
\* falling from an earlier attach, go from 1 to 0, and called its handler.
C11_Witness ==
  /\ Ran
  /\ \E b \in Slots :
       /\ RunAtt(b).reg = "attached"
       /\ RunAtt(b).mode = RISING
       /\ b \in port[run.group].falling
       /\ b \in RunOld
       /\ b \notin RunNew
       /\ b \in CalledSlots

\* C12: when attachInterrupt returns, the group's last state is the input
\* register as attach read it (the tests on the PCMSK bit and the input
\* register come before the test on the step, which implies them); and a run
\* whose sample is equal to the last state makes no call.
C12_AttachSeedsState ==
  /\ [][\A pin \in Pins, mode \in Modes :
          LET g == digitalPinToPCICRbit(pin)
              b == digitalPinToPCMSKbit(pin)
          IN (/\ port'[g].state # pin_register[g]
              /\ b \in pcmsk'[g]
              /\ pin_register' = pin_register)
             => ~AttachStep(pin, mode)]_vars
  /\ [](Ran => (RunOld = RunNew => run.calls = <<>>))

\* A run in a group with an attached CHANGE pin whose sample was equal to the
\* last state, both with a line high, and that made no call.
C12_Witness ==
  /\ Ran
  /\ RunOld = RunNew
  /\ RunNew # Byte(0)
  /\ \E b \in RunNew :
       /\ RunAtt(b).reg = "attached"
       /\ RunAtt(b).mode = CHANGE
  /\ run.calls = <<>>

\* C13: detachInterrupt is idempotent: the PcIntPorts (handlers, arguments,
\* direction masks, last state), the PCMSK registers and PCICR a
\* detachInterrupt(pin) leaves are left as they are by a second
\* detachInterrupt(pin).
C13_DetachIdempotent ==
  [][\A pin \in GroupPins :
       detachInterrupt(pin) =>
         /\ <<port', pcmsk', pcicr'>> = DetachOutcome(port, pcmsk, pcicr, pin)
         /\ DetachOutcome(port', pcmsk', pcicr', pin)
              = <<port', pcmsk', pcicr'>>]_vars

\* The state a detachInterrupt left with bits 0 to 3 of PCMSK set, where
\* detach's test on the mask is true: the group's PCICR bit is clear.
C13_Witness ==
  /\ att[0][4].reg = "detached"
  /\ pcmsk[0] = Byte(15)
  /\ 0 \notin pcicr
  /\ \A b \in 0..3 : att[0][b].reg = "attached"

\* C14: for a pin without a PCINT line, attachInterrupt (both forms),
\* detachInterrupt, enableInterrupt and disableInterrupt change nothing: the
\* PcIntPorts, the PCMSK registers and PCICR are as before the call.
C14_UnmappedPinNoOp ==
  [][(\/ \E mode \in Modes : AttachStep(UnmappedPin, mode)
      \/ detachInterrupt(UnmappedPin)
      \/ enableInterrupt(UnmappedPin)
      \/ disableInterrupt(UnmappedPin))
     => UNCHANGED <<port, pcmsk, pcicr>>]_vars

\* A state with a pin attached, its PCMSK and PCICR bits set, from which the
\* calls on the pin without a PCINT line are steps that change no register
\* and no PcIntPort.
C14_Witness ==
  /\ att[0][0].reg = "attached"
  /\ 0 \in pcmsk[0]
  /\ 0 \in pcicr
  /\ ENABLED (attachInterrupt(UnmappedPin, 2, ArgOf(2), CHANGE)
              /\ UNCHANGED <<port, pcmsk, pcicr>>)
  /\ ENABLED (detachInterrupt(UnmappedPin) /\ UNCHANGED <<port, pcmsk, pcicr>>)
  /\ ENABLED (disableInterrupt(UnmappedPin) /\ UNCHANGED <<port, pcmsk, pcicr>>)
  /\ ENABLED (enableInterrupt(UnmappedPin) /\ UNCHANGED <<port, pcmsk, pcicr>>)

\* C15: getFunc(group, nr) returns NULL when nr is 8 or more, when the group
\* has no PcIntPort, and when the slot holds no handler; otherwise it returns
\* the handler of the last attachInterrupt for the slot, if no detachInterrupt
\* followed it; and a getFunc call writes nothing.
C15_GetFunc ==
  /\ [](\A group \in DiagGroups, nr \in DiagSlots :
          getFunc(group, nr) =
            IF /\ group \in Groups
               /\ nr < NumSlots
               /\ att[group][nr].reg = "attached"
            THEN att[group][nr].func
            ELSE NULL)
  /\ [][\A group \in DiagGroups, nr \in DiagSlots :
          getFuncCall(group, nr) => UNCHANGED <<port, pcmsk, pcicr>>]_vars

\* A state where getFunc returns the callback without argument last attached
\* to slot 0, and NULL for a slot number past the table, for a group without
\* PcIntPort and for a slot never attached.
C15_Witness ==
  /\ att[0][0].reg = "attached"
  /\ att[0][0].func \in SimpleFuncs
  /\ getFunc(0, 0) = att[0][0].func
  /\ getFunc(0, NumSlots) = NULL
  /\ getFunc(NumGroups, 0) = NULL
  /\ getFunc(0, 1) = NULL

\* C16: in every interleaving of the lines of attachInterrupt and
\* detachInterrupt with the ISR, every call a run makes passes the argument
\* that was supplied together with the handler it calls.
C16_HandlerWithItsArgument ==
  Ran =>
    \A i \in DOMAIN run.calls :
      run.calls[i].arg = SuppliedWith(run.calls[i].func)

\* C17: in every interleaving of the lines of attachInterrupt with the ISR, a
\* run calls the handler of a slot only if the slot's input changed after the
\* last attachInterrupt call for its pin began.
C17_OnlyLaterTransitions ==
  Ran =>
    \A b \in CalledSlots : <<run.group, b>> \in moved

\* C18: the ISR stores the new sample into the group's last state before it
\* calls the first handler: while a handler runs, the last state is the sample
\* the run read.
C18_StateBeforeDispatch ==
  isr.pc = 223 => port[isr.group].state = isr.new_state

\* The ISR is in a handler, after a sample that differed from the last state;
\* the input register has changed again since the sample was read.
C18_Witness ==
  /\ isr.pc = 223
  /\ isr.old_state # isr.new_state
  /\ port[isr.group].state = isr.new_state
  /\ pin_register[isr.group] # isr.new_state

\* The run found the bit triggered: changed, in a direction the slot is armed
\* for.
Triggered(b) ==
  /\ b \in BitXor(RunOld, RunNew)
  /\ \/ b \in port[run.group].rising /\ b \in RunNew
     \/ b \in port[run.group].falling /\ b \notin RunNew

\* C19: a run skips a triggered bit whose slot holds no handler: it makes no
\* call for it, it still stores the sample into the last state, and it still
\* calls the handler of every other triggered bit that has one.
C19_NoHandlerIsSkipped ==
  Ran =>
    /\ port[run.group].state = pin_register[run.group]
    /\ \A b \in Slots :
         Triggered(b) =>
           IF port[run.group].funcs[b] = NULL
           THEN b \notin CalledSlots
           ELSE b \in CalledSlots

\* A run that found a bit without handler triggered (a detachInterrupt for
\* its pin has cleared the handler and not yet the direction bits) and a
\* higher bit with a handler, which it called.
C19_Witness ==
  /\ Ran
  /\ \E b, c \in Slots :
       /\ b < c
       /\ Triggered(b)
       /\ port[run.group].funcs[b] = NULL
       /\ Triggered(c)
       /\ c \in CalledSlots
       /\ port[run.group].state = RunNew
       /\ RunNew # RunOld

\* C20: the last state of a group changes only in a run of the group's ISR
\* and in an attachInterrupt for a pin of the group: detachInterrupt,
\* enableInterrupt, disableInterrupt and getFunc leave the last state of
\* every group as it is.
C20_StateWriters ==
  [][/\ \A g \in Groups :
          \/ port'[g].state = port[g].state
          \/ run'.group = g
          \/ \E pin \in DiagPins, mode \in Modes :
               digitalPinToPCICRbit(pin) = g /\ AttachStep(pin, mode)
     /\ (\/ \E pin \in DiagPins :
              detachInterrupt(pin) \/ enableInterrupt(pin)
                \/ disableInterrupt(pin)
         \/ \E group \in DiagGroups, nr \in DiagSlots : getFuncCall(group, nr))
        => \A g \in Groups : port'[g].state = port[g].state]_vars

\* A state after a detachInterrupt in which the last state of the group holds
\* a high line and differs from the input register: no call has touched it
\* since the ISR or the attach that wrote it.
C20_Witness ==
  /\ att[0][0].reg = "detached"
  /\ port[0].state # Byte(0)
  /\ port[0].state # pin_register[0]
  /\ run = NoRun

\* C21: attachInterrupt and detachInterrupt for the pin of bit b leave, for
\* every other bit of the group, the handler, the argument, the rising bit,
\* the falling bit and the PCMSK bit as they are; detachInterrupt clears bit
\* b's handler, argument, rising bit, falling bit and PCMSK bit.
C21_OtherBitsUntouched ==
  [][\A pin \in GroupPins :
       LET g == digitalPinToPCICRbit(pin)
           b == digitalPinToPCMSKbit(pin)
       IN /\ (AttachStep(pin, CHANGE) \/ detachInterrupt(pin)) =>
               \A c \in Slots \ {b} :
                 /\ port'[g].funcs[c] = port[g].funcs[c]
                 /\ port'[g].args[c] = port[g].args[c]
                 /\ (c \in port'[g].rising) = (c \in port[g].rising)
                 /\ (c \in port'[g].falling) = (c \in port[g].falling)
                 /\ (c \in pcmsk'[g]) = (c \in pcmsk[g])
          /\ detachInterrupt(pin) =>
               /\ port'[g].funcs[b] = NULL
               /\ port'[g].args[b] = NULL
               /\ b \notin port'[g].rising
               /\ b \notin port'[g].falling
               /\ b \notin pcmsk'[g]]_vars

\* Bit 1 was detached and is clear in every field; bit 0, attached with an
\* argument, still holds its handler, argument, direction bits and PCMSK bit.
C21_Witness ==
  /\ att[0][1].reg = "detached"
  /\ port[0].funcs[1] = NULL
  /\ 1 \notin port[0].rising
  /\ 1 \notin pcmsk[0]
  /\ att[0][0].reg = "attached"
  /\ att[0][0].arg # NULL
  /\ port[0].funcs[0] = att[0][0].func
  /\ port[0].args[0] = att[0][0].arg
  /\ 0 \in port[0].rising
  /\ 0 \in port[0].falling
  /\ 0 \in pcmsk[0]

\* C22: the port groups are isolated. A step changes the slots, arguments,
\* direction masks or last state of group q only when it is attachInterrupt or
\* detachInterrupt on a pin of q or the ISR of q, and an ISR run calls only
\* handlers stored in its own group's slots, with that group's arguments.
C22_GroupsIsolated ==
  [][/\ \A q \in Groups :
          \/ port'[q] = port[q]
          \/ run'.group = q
          \/ \E pin \in PinsOf(q) :
               AttachStep(pin, CHANGE) \/ detachInterrupt(pin)
     /\ run'.group # NoPort =>
          \A i \in DOMAIN run'.calls :
            /\ run'.calls[i].func = port[run'.group].funcs[run'.calls[i].nr]
            /\ run'.calls[i].arg = port[run'.group].args[run'.calls[i].nr]]_vars

\* The ISR of group 1 ran and called the simple handler of its slot 0 while
\* slot 0 of group 0 holds another handler, with its argument, and an input
\* change the ISR of group 0 has not seen.
C22_Witness ==
  /\ run.group = 1
  /\ Len(run.calls) = 1
  /\ run.calls[1].func \in SimpleFuncs
  /\ port[0].funcs[0] \in ArgFuncs
  /\ port[0].args[0] # NULL
  /\ 0 \in pcmsk[0]
  /\ port[0].state # pin_register[0]
  /\ port[1].state = pin_register[1]

\* C23: attachInterrupt for pin A does not lose an edge of another pin B of
\* the same group. When B is attached and enabled, an armed transition of B
\* is waiting for the group's ISR (the input differs from the last state in
\* B's bit, in an armed direction, and the vector is pending), then after
\* attachInterrupt(A) the ISR still finds B triggered.
C23_AttachKeepsPendingEdge ==
  [][\A pinA \in Pins, pinB \in Pins :
       LET g == digitalPinToPCICRbit(pinB)
           b == digitalPinToPCMSKbit(pinB)
       IN (/\ pinA # pinB
           /\ digitalPinToPCICRbit(pinA) = g
           /\ VectorPending(g)
           /\ b \in pcmsk[g]
           /\ port[g].funcs[b] # NULL
           /\ b \in TriggerPins(port[g], pin_register[g])
           /\ \E mode \in Modes : AttachStep(pinA, mode))
          => b \in TriggerPins(port'[g], pin_register'[g])]_vars

\* C24: an ISR run reads the input register once. From the store on, the
\* group's last state is the sample the run read, the trigger set is computed
\* from that sample and every handler is passed its bit of that sample; so a
\* bit of the input that changes after the sample was read differs from the
\* last state, and when its PCMSK bit is set the group's flag is raised again
\* for the next run.
C24_SampleReadOnce ==
  isr.pc \in {221, 223} =>
    LET g == isr.group
    IN /\ port[g].state = isr.new_state
       /\ isr.trigger_pins =
            TriggerPins([port[g] EXCEPT !.state = isr.old_state],
                        isr.new_state)
       /\ \A i \in DOMAIN isr.calls :
            isr.calls[i].value = (isr.calls[i].nr \in isr.new_state)
       /\ \A b \in BitXor(pin_register[g], isr.new_state) :
            /\ b \in BitXor(pin_register[g], port[g].state)
            /\ b \in pcmsk[g] => g \in pcifr

\* A handler was called and has returned; the input of an enabled pin changed
\* after the sample was read, the last state is the sample, and the flag is
\* raised for the next run.
C24_Witness ==
  /\ isr.pc = 221
  /\ Len(isr.calls) = 1
  /\ isr.nr > isr.calls[1].nr
  /\ port[isr.group].state = isr.new_state
  /\ BitAnd(BitXor(pin_register[isr.group], isr.new_state),
            pcmsk[isr.group]) # {}
  /\ isr.group \in pcifr

\* C25: the trigger set of an ISR run is fixed when the run starts and the
\* presence of a handler is read when its slot is dispatched. While the run is
\* in its loop the trigger set does not change, whatever its handlers attach
\* or detach; every call the loop makes is for a bit of that trigger set
\* whose slot holds a handler at that moment. So a higher triggered bit that
\* a lower bit's handler detached is not called in this run, and a higher bit
\* that was not armed when the run started and that a handler attaches is not
\* called in this run.
C25_PresenceReadAtDispatch ==
  [][(isr.pc \in {220, 221, 223} /\ isr'.pc \in {221, 223}) =>
       /\ isr'.trigger_pins = isr.trigger_pins
       /\ \A i \in DOMAIN isr'.calls \ DOMAIN isr.calls :
            LET c == isr'.calls[i]
            IN /\ c.nr \in isr.trigger_pins
               /\ att[isr.group][c.nr].reg = "attached"
               /\ c.func = att[isr.group][c.nr].func]_vars

\* Bits 0 and 5 were both triggered; the handler of bit 0 was called, it
\* detached bit 5 and returned; the loop is past bit 0 and bit 5's slot is
\* empty, so the run ends with the one call.
C25_Witness ==
  /\ isr.pc = 221
  /\ isr.nr = 1
  /\ isr.trigger_pins = {0, 5}
  /\ Len(isr.calls) = 1
  /\ isr.calls[1].nr = 0
  /\ att[isr.group][5].reg = "detached"
  /\ port[isr.group].funcs[5] = NULL

\* C26: attachInterrupt with a mode that is none of RISING, FALLING and
\* CHANGE, on a slot with neither direction bit set, stores the handler and
\* sets the pin's PCMSK bit and the group's PCICR bit but sets neither
\* direction bit; and no ISR run calls the handler of a slot that has neither
\* direction bit set, so the handler is not called until an attachInterrupt
\* with one of the three modes.
C26_InvalidModeNeverFires ==
  [][/\ \A pin \in Pins, mode \in InvalidModes :
          LET g == digitalPinToPCICRbit(pin)
              b == digitalPinToPCMSKbit(pin)
          IN (/\ b \notin port[g].rising
              /\ b \notin port[g].falling
              /\ att'[g][b].reg = "attached"
              /\ att'[g][b].mode = mode
              /\ pin_register' = pin_register
              /\ AttachStep(pin, mode))
             => /\ port'[g].funcs[b] # NULL
                /\ b \in pcmsk'[g]
                /\ g \in pcicr'
                /\ b \notin port'[g].rising
                /\ b \notin port'[g].falling
     /\ run'.group # NoPort =>
          \A b \in Slots :
            (b \notin port[run'.group].rising
               /\ b \notin port[run'.group].falling)
            => \A i \in DOMAIN run'.calls : run'.calls[i].nr # b]_vars

\* An ISR run found the input of a pin changed whose slot was attached with
\* an invalid mode: the slot holds the handler, the pin is enabled, neither
\* direction bit is set, and the run did not call the handler.
C26_Witness ==
  /\ Ran
  /\ \E b \in Slots :
       /\ RunAtt(b).reg = "attached"
       /\ RunAtt(b).mode \in InvalidModes
       /\ port[run.group].funcs[b] = RunAtt(b).func
       /\ b \in pcmsk[run.group]
       /\ run.group \in pcicr
       /\ b \notin port[run.group].rising
       /\ b \notin port[run.group].falling
       /\ b \in BitXor(RunOld, RunNew)
       /\ b \notin CalledSlots

\* C27: between the calls, after any sequence of attachInterrupt with
\* non-null handlers, detachInterrupt, enableInterrupt, disableInterrupt and
\* ISR runs from the initial state, every bit set in rising or in falling
\* has a handler in its slot.
C27_ArmedBitsHaveHandlers ==
  \A g \in Groups : \A b \in Slots :
    (b \in port[g].rising \/ b \in port[g].falling) =>
      port[g].funcs[b] # NULL

\* After an ISR run: bit 5 is armed for falling only and holds its handler,
\* bit 0 was detached and has neither direction bit nor a handler.
C27_Witness ==
  /\ Ran
  /\ att[0][5].reg = "attached"
  /\ 5 \in port[0].falling
  /\ 5 \notin port[0].rising
  /\ port[0].funcs[5] # NULL
  /\ att[0][0].reg = "detached"
  /\ 0 \notin port[0].rising
  /\ 0 \notin port[0].falling
  /\ port[0].funcs[0] = NULL

\* C28: for every 8-bit mask with exactly one bit set bitpos returns the
\* index of that bit, 0..7; it returns 255 for the mask 0 and for no other
\* mask. The mask attachInterrupt and detachInterrupt pass, the one of a
\* mapped pin, has one bit set, so they index within the 8 slots.
C28_BitposOfOneBit ==
  /\ probe.called =>
       /\ \A i \in Slots : probe.mask = BV(i) => probe.pos = i
       /\ (probe.pos = NoBit) = (probe.mask = Byte(0))
       /\ probe.pos \in Slots \cup {NoBit}
  /\ \A pin \in 0..(NumGroups * NumSlots - 1) :
       /\ Cardinality(digitalPinToBitMask(pin)) = 1
       /\ bitpos(digitalPinToBitMask(pin)) \in Slots

\* bitpos was called with the mask 0x80 and returned 7.
C28_Witness ==
  /\ probe.called
  /\ probe.mask = Byte(2 ^ (NumSlots - 1))
  /\ probe.mask = BV(NumSlots - 1)
  /\ probe.pos = NumSlots - 1

====
